---- MODULE Spec2Model ----
(***************************************************************************)
(* Model of the Wordle engine of src/wordle/wordle.py: the two-pass        *)
(* scoring of a guess, the per-character Constraint objects with their     *)
(* update (in place) and merge (functional) operations, and the Wordle     *)
(* session with is_legal, make_guess and copy_make_guess.                  *)
(*                                                                         *)
(* Constraint objects are Python objects: a session's _constraints dict    *)
(* holds references to them.  The model keeps them in a heap (a sequence   *)
(* of Constraint records, a reference is an index) so that the shallow     *)
(* copy made by copy_make_guess shares objects as it does in the code.     *)
(* Indexes into words are 0-based as in the source.                        *)
(***************************************************************************)
EXTENDS Integers, Sequences, FiniteSets, TLC

\* ---------------------------------------------------------------- bounds
MaxSessions == 2
MaxCalls == 3

\* ---------------------------------------------------------------- inputs
AA == <<"A", "A">>
AB == <<"A", "B">>
BA == <<"B", "A">>
BB == <<"B", "B">>
ERODE == <<"E", "R", "O", "D", "E">>
EERIE == <<"E", "E", "R", "I", "E">>
APPLE == <<"A", "P", "P", "L", "E">>
ALLEY == <<"A", "L", "L", "E", "Y">>
LAPEL == <<"L", "A", "P", "E", "L">>
ABC == <<"A", "B", "C">>
BCA == <<"B", "C", "A">>
ABD == <<"A", "B", "D">>
DAC == <<"D", "A", "C">>
AAB == <<"A", "A", "B">>

Vocabulary ==
    {AA, AB, BA, BB, ERODE, EERIE, APPLE, ALLEY, LAPEL,
     ABC, BCA, ABD, DAC, AAB}

\* the games played: the two-letter secrets in either mode, ERODE as the
\* scoring example, APPLE as the hard-mode example
Games ==
    {[word |-> w, hard_mode |-> h] : w \in {AB, AA}, h \in BOOLEAN}
        \cup {[word |-> ERODE, hard_mode |-> FALSE],
              [word |-> APPLE, hard_mode |-> TRUE]}

\* the games of the scoring specification: a secret without a repeated
\* letter, guessed with and without repeated and foreign letters
ScoreGames == {[word |-> ABC, hard_mode |-> FALSE]}

Range(w) == {w[i] : i \in DOMAIN w}

Chars == UNION {Range(w) : w \in Vocabulary}

\* guesses offered to a session: every word of the vocabulary of the right
\* length, the empty guess and one guess that is too long
Guesses(word) ==
    {g \in Vocabulary : Len(g) = Len(word)}
        \cup {<<>>, Append(word, word[1])}

\* ------------------------------------------------------------ CharResult
Gray == "X"
Yellow == "Y"
Green == "G"

CharResult == {Gray, Yellow, Green}

all_correct(results) == \A i \in DOMAIN results : results[i] = Green

\* ------------------------------------------------------------- helpers
At(seq, index) == seq[index + 1]

Min(a, b) == IF a < b THEN a ELSE b

\* counter(word): Counter(word), keyed by the characters of the word
counter(word) ==
    [c \in Range(word) |-> Cardinality({i \in DOMAIN word : word[i] = c})]

\* Counter.__getitem__: a missing key reads as 0 and is not inserted
Count(cnt, c) == IF c \in DOMAIN cnt THEN cnt[c] ELSE 0

\* Counter & Counter: the minimum of the two counts, positive counts only
CounterAnd(a, b) ==
    [c \in DOMAIN a \cap DOMAIN b |-> Min(a[c], b[c])]

\* build_char_indexes(guess): the indexes of every character of the guess;
\* the dict is keyed in order of first occurrence
Indexes(guess, char) == {i \in 0..(Len(guess) - 1) : At(guess, i) = char}

RECURSIVE CharOrder(_)
CharOrder(guess) ==
    IF guess = <<>> THEN <<>>
    ELSE LET front == SubSeq(guess, 1, Len(guess) - 1)
             c == guess[Len(guess)]
         IN IF c \in Range(front) THEN CharOrder(front)
            ELSE Append(CharOrder(front), c)

\* ------------------------------------------------------------- scoring
\* first loop of _make_guess: exact matches are Green and consume overlap
RECURSIVE GreenPass(_, _, _, _, _)
GreenPass(word, guess, index, result, overlap) ==
    IF index >= Min(Len(word), Len(guess))
    THEN [result |-> result, overlap |-> overlap]
    ELSE IF At(word, index) = At(guess, index)
         THEN GreenPass(word, guess, index + 1,
                        [result EXCEPT ![index + 1] = Green],
                        [overlap EXCEPT ![At(word, index)] = @ - 1])
         ELSE GreenPass(word, guess, index + 1, result, overlap)

\* a slip: the second loop looks up the secret's character, not the guessed
RECURSIVE YellowPassByCorrect(_, _, _, _, _)
YellowPassByCorrect(word, guess, index, result, overlap) ==
    IF index >= Min(Len(word), Len(guess))
    THEN result
    ELSE IF result[index + 1] # Green /\ Count(overlap, At(word, index)) # 0
         THEN YellowPassByCorrect(word, guess, index + 1,
                                  [result EXCEPT ![index + 1] = Yellow],
                                  [overlap EXCEPT ![At(word, index)] = @ - 1])
         ELSE YellowPassByCorrect(word, guess, index + 1, result, overlap)

\* second loop of _make_guess: a non-Green position is Yellow while the
\* overlap of its character is non-zero
RECURSIVE YellowPass(_, _, _, _, _)
YellowPass(word, guess, index, result, overlap) ==
    IF index >= Min(Len(word), Len(guess))
    THEN result
    ELSE IF result[index + 1] # Green /\ Count(overlap, At(guess, index)) # 0
         THEN YellowPass(word, guess, index + 1,
                         [result EXCEPT ![index + 1] = Yellow],
                         [overlap EXCEPT ![At(guess, index)] = @ - 1])
         ELSE YellowPass(word, guess, index + 1, result, overlap)

\* a plausible slip: one pass, Green and Yellow decided together
RECURSIVE OnePass(_, _, _, _, _)
OnePass(word, guess, index, result, overlap) ==
    IF index >= Min(Len(word), Len(guess))
    THEN result
    ELSE IF At(word, index) = At(guess, index)
         THEN OnePass(word, guess, index + 1,
                      [result EXCEPT ![index + 1] = Green],
                      [overlap EXCEPT ![At(word, index)] = @ - 1])
         ELSE IF Count(overlap, At(guess, index)) > 0
              THEN OnePass(word, guess, index + 1,
                           [result EXCEPT ![index + 1] = Yellow],
                           [overlap EXCEPT ![At(guess, index)] = @ - 1])
              ELSE OnePass(word, guess, index + 1, result, overlap)

ScoreOnePass(word, guess) ==
    OnePass(word, guess, 0, [i \in 1..Len(word) |-> Gray],
            CounterAnd(counter(word), counter(guess)))

Score(word, guess) ==
    LET greens == GreenPass(word, guess, 0, [i \in 1..Len(word) |-> Gray],
                            CounterAnd(counter(word), counter(guess)))
    IN YellowPass(word, guess, 0, greens.result, greens.overlap)

\* ---------------------------------------------------------- Constraint
Constraint(min_count, min_is_exact, known_positions, known_not_positions) ==
    [min_count |-> min_count, min_is_exact |-> min_is_exact,
     known_positions |-> known_positions,
     known_not_positions |-> known_not_positions]

isdisjoint(a, b) == a \cap b = {}

\* a slip: exactness taken from the Yellow count instead of the Gray count
from_result_exact_on_yellow(indexes, result) ==
    Constraint(
        Cardinality({i \in indexes : At(result, i) = Green})
            + Cardinality({i \in indexes : At(result, i) = Yellow}),
        Cardinality({i \in indexes : At(result, i) = Yellow}) # 0,
        {index \in indexes : At(result, index) = Green},
        {index \in indexes : At(result, index) # Green})

\* a slip: every occurrence in the guess is counted
from_result_counts_all(indexes, result) ==
    Constraint(
        Cardinality(indexes),
        Cardinality({i \in indexes : At(result, i) = Gray}) # 0,
        {index \in indexes : At(result, index) = Green},
        {index \in indexes : At(result, index) # Green})

\* a slip: a Yellow position is not recorded as a wrong position
from_result_not_positions_gray_only(indexes, result) ==
    Constraint(
        Cardinality({i \in indexes : At(result, i) \in {Green, Yellow}}),
        Cardinality({i \in indexes : At(result, i) = Gray}) # 0,
        {index \in indexes : At(result, index) = Green},
        {index \in indexes : At(result, index) = Gray})

\* a slip: only the Green occurrences are counted
from_result_counts_green_only(indexes, result) ==
    Constraint(
        Cardinality({i \in indexes : At(result, i) = Green}),
        Cardinality({i \in indexes : At(result, i) = Gray}) # 0,
        {index \in indexes : At(result, index) = Green},
        {index \in indexes : At(result, index) # Green})

\* a slip: every guessed index is recorded as a wrong position
from_result_all_not(indexes, result) ==
    Constraint(
        Cardinality({i \in indexes : At(result, i) = Green})
            + Cardinality({i \in indexes : At(result, i) = Yellow}),
        Cardinality({i \in indexes : At(result, i) = Gray}) # 0,
        {index \in indexes : At(result, index) = Green},
        indexes)

from_result(indexes, result) ==
    Constraint(
        Cardinality({i \in indexes : At(result, i) = Green})
            + Cardinality({i \in indexes : At(result, i) = Yellow}),
        Cardinality({i \in indexes : At(result, i) = Gray}) # 0,
        {index \in indexes : At(result, index) = Green},
        {index \in indexes : At(result, index) # Green})

\* a slip: on equal counts the exactness is overwritten, not or-ed
update_overwrites_exact(self, u) ==
    LET count_fault ==
            \/ u.min_count > self.min_count /\ self.min_is_exact
            \/ u.min_count < self.min_count /\ u.min_is_exact
        counted ==
            IF u.min_count >= self.min_count
            THEN [self EXCEPT !.min_count = u.min_count,
                              !.min_is_exact = u.min_is_exact]
            ELSE self
        unioned ==
            [counted EXCEPT
                !.known_positions = @ \cup u.known_positions,
                !.known_not_positions = @ \cup u.known_not_positions]
    IN IF count_fault
       THEN [value |-> self, ok |-> FALSE]
       ELSE [value |-> unioned,
             ok |-> isdisjoint(unioned.known_positions,
                               unioned.known_not_positions)]

\* Constraint.update(self, u): value is the object after the call, ok is
\* FALSE when an assert fails.  The two count asserts fail before anything
\* is written; the disjointness assert fails after the sets were updated.
update(self, u) ==
    LET count_fault ==
            \/ u.min_count > self.min_count /\ self.min_is_exact
            \/ u.min_count < self.min_count /\ u.min_is_exact
        counted ==
            IF u.min_count > self.min_count
            THEN [self EXCEPT !.min_count = u.min_count,
                              !.min_is_exact = u.min_is_exact]
            ELSE IF u.min_count = self.min_count
                 THEN [self EXCEPT !.min_is_exact = @ \/ u.min_is_exact]
                 ELSE self
        unioned ==
            [counted EXCEPT
                !.known_positions = @ \cup u.known_positions,
                !.known_not_positions = @ \cup u.known_not_positions]
    IN IF count_fault
       THEN [value |-> self, ok |-> FALSE]
       ELSE [value |-> unioned,
             ok |-> isdisjoint(unioned.known_positions,
                               unioned.known_not_positions)]

\* a slip: on equal counts the exactness of b is dropped
merge_drops_exact(a, b) ==
    LET count_fault ==
            \/ a.min_count > b.min_count /\ b.min_is_exact
            \/ a.min_count < b.min_count /\ a.min_is_exact
        min_count == IF a.min_count > b.min_count THEN a.min_count
                     ELSE b.min_count
        min_is_exact ==
            IF a.min_count >= b.min_count THEN a.min_is_exact
            ELSE b.min_is_exact
        known_positions == a.known_positions \cup b.known_positions
        known_not_positions ==
            a.known_not_positions \cup b.known_not_positions
    IN [value |-> Constraint(min_count, min_is_exact, known_positions,
                             known_not_positions),
        ok |-> ~count_fault
               /\ isdisjoint(known_positions, known_not_positions)]

\* Constraint.merge(a, b): value is the new object, ok is FALSE when an
\* assert fails (and then nothing is returned).
merge(a, b) ==
    LET count_fault ==
            \/ a.min_count > b.min_count /\ b.min_is_exact
            \/ a.min_count < b.min_count /\ a.min_is_exact
        min_count == IF a.min_count > b.min_count THEN a.min_count
                     ELSE IF a.min_count = b.min_count THEN a.min_count
                     ELSE b.min_count
        min_is_exact ==
            IF a.min_count > b.min_count THEN a.min_is_exact
            ELSE IF a.min_count = b.min_count
                 THEN a.min_is_exact \/ b.min_is_exact
                 ELSE b.min_is_exact
        known_positions == a.known_positions \cup b.known_positions
        known_not_positions ==
            a.known_not_positions \cup b.known_not_positions
    IN [value |-> Constraint(min_count, min_is_exact, known_positions,
                             known_not_positions),
        ok |-> ~count_fault
               /\ isdisjoint(known_positions, known_not_positions)]

\* ----------------------------------------------------------------- state
VARIABLES
    sessions,   \* the Wordle objects: word, hard_mode, constraints
    heap,       \* the Constraint objects, by reference
    parent,     \* parent[c] = s when c was returned by s.copy_make_guess
    calls,      \* number of calls made so far
    last        \* the last call: operation, arguments, outcome

vars == <<sessions, heap, parent, calls, last>>

NoError == "none"
EmptyGuess == "empty_guess"
LengthMismatch == "length_mismatch"
CountExactMismatch == "count_exact_mismatch"
CountBelowMinimum == "count_below_minimum"
MissingRequiredPosition == "missing_required_position"
ForbiddenPositionPresent == "forbidden_position_present"
AssertionError == "assertion_error"

\* dict lookup: the reference held for char, 0 (None) when there is none
Get(constraints, char) ==
    IF \E i \in DOMAIN constraints : constraints[i].char = char
    THEN constraints[CHOOSE i \in DOMAIN constraints :
                         constraints[i].char = char].ref
    ELSE 0

\* dict store: replaces the value of an existing key in place, appends a
\* new key at the end
Put(constraints, char, ref) ==
    IF \E i \in DOMAIN constraints : constraints[i].char = char
    THEN [i \in DOMAIN constraints |->
            IF constraints[i].char = char
            THEN [char |-> char, ref |-> ref] ELSE constraints[i]]
    ELSE Append(constraints, [char |-> char, ref |-> ref])

\* the constraint table of a dict as values: (char, Constraint) in key order
TableOf(constraints, h) ==
    [i \in DOMAIN constraints |->
        [char |-> constraints[i].char, constraint |-> h[constraints[i].ref]]]

Table(s) == TableOf(sessions[s].constraints, heap)

Wordle(word, hard_mode) ==
    [word |-> word, hard_mode |-> hard_mode, constraints |-> <<>>]

Init ==
    /\ \E game \in Games :
          sessions = <<Wordle(game.word, game.hard_mode)>>
    /\ heap = <<>>
    /\ parent = <<0>>
    /\ calls = 0
    /\ last = [op |-> "init", session |-> 1, guess |-> <<>>,
               error |-> NoError, char |-> "", result |-> <<>>,
               forked |-> 0]

\* ------------------------------------------------------------- legality
\* a slip: every minimum is taken as exact
wrong_count_always_exact(count, constraint) ==
    count # constraint.min_count

wrong_count(count, constraint) ==
    IF constraint.min_is_exact
    THEN count # constraint.min_count
    ELSE count < constraint.min_count

missing_known_positions(guess, char, constraint) ==
    \E index \in constraint.known_positions : At(guess, index) # char

present_known_not_positions(guess, char, constraint) ==
    \E index \in constraint.known_not_positions : At(guess, index) = char

\* a slip: the forbidden positions are not looked at
is_legal_ignores_not_positions(self, guess) ==
    IF Len(guess) # Len(self.word)
    THEN FALSE
    ELSE IF self.hard_mode
         THEN ~\E i \in DOMAIN self.constraints :
                 LET char == self.constraints[i].char
                     constraint == heap[self.constraints[i].ref]
                 IN \/ wrong_count(Count(counter(guess), char), constraint)
                    \/ missing_known_positions(guess, char, constraint)
         ELSE TRUE

\* a slip: the known positions are not looked at
is_legal_ignores_known_positions(self, guess) ==
    IF Len(guess) # Len(self.word)
    THEN FALSE
    ELSE IF self.hard_mode
         THEN ~\E i \in DOMAIN self.constraints :
                 LET char == self.constraints[i].char
                     constraint == heap[self.constraints[i].ref]
                 IN \/ wrong_count(Count(counter(guess), char), constraint)
                    \/ present_known_not_positions(guess, char, constraint)
         ELSE TRUE

\* Wordle.is_legal(self, guess)
is_legal(self, guess) ==
    IF Len(guess) # Len(self.word)
    THEN FALSE
    ELSE IF self.hard_mode
         THEN ~\E i \in DOMAIN self.constraints :
                 LET char == self.constraints[i].char
                     constraint == heap[self.constraints[i].ref]
                 IN \/ wrong_count(Count(counter(guess), char), constraint)
                    \/ missing_known_positions(guess, char, constraint)
                    \/ present_known_not_positions(guess, char, constraint)
         ELSE TRUE

Fault(error, char) == [error |-> error, char |-> char]

\* a slip: the known-not positions are not checked on submission
ViolationIgnoresForbidden(guess, char, constraint) ==
    LET count == Count(counter(guess), char)
    IN IF constraint.min_is_exact /\ count # constraint.min_count
       THEN CountExactMismatch
       ELSE IF count < constraint.min_count
       THEN CountBelowMinimum
       ELSE IF \E index \in constraint.known_positions :
                  At(guess, index) # char
       THEN MissingRequiredPosition
       ELSE NoError

\* a slip: the positions are checked before the count
ViolationPositionsFirst(guess, char, constraint) ==
    LET count == Count(counter(guess), char)
    IN IF \E index \in constraint.known_positions :
             At(guess, index) # char
       THEN MissingRequiredPosition
       ELSE IF \E index \in constraint.known_not_positions :
                  At(guess, index) = char
       THEN ForbiddenPositionPresent
       ELSE IF constraint.min_is_exact /\ count # constraint.min_count
       THEN CountExactMismatch
       ELSE IF count < constraint.min_count
       THEN CountBelowMinimum
       ELSE NoError

\* the body of the loop of _verify_is_legal for one (char, constraint):
\* the first check that raises
Violation(guess, char, constraint) ==
    LET count == Count(counter(guess), char)
    IN IF constraint.min_is_exact /\ count # constraint.min_count
       THEN CountExactMismatch
       ELSE IF count < constraint.min_count
       THEN CountBelowMinimum
       ELSE IF \E index \in constraint.known_positions :
                  At(guess, index) # char
       THEN MissingRequiredPosition
       ELSE IF \E index \in constraint.known_not_positions :
                  At(guess, index) = char
       THEN ForbiddenPositionPresent
       ELSE NoError

\* the loop of _verify_is_legal over self._constraints.items(), in key order
RECURSIVE VerifyLoop(_, _, _)
VerifyLoop(constraints, i, guess) ==
    IF i > Len(constraints)
    THEN Fault(NoError, "")
    ELSE LET char == constraints[i].char
             v == Violation(guess, char, heap[constraints[i].ref])
         IN IF v # NoError THEN Fault(v, char)
            ELSE VerifyLoop(constraints, i + 1, guess)

\* a slip: the hard-mode rules are applied whatever the mode
verify_is_legal_always_hard(self, guess) ==
    IF guess = <<>>
    THEN Fault(EmptyGuess, "")
    ELSE IF Len(guess) # Len(self.word)
    THEN Fault(LengthMismatch, "")
    ELSE VerifyLoop(self.constraints, 1, guess)

\* Wordle._verify_is_legal(self, guess, char_counts): the fault raised
verify_is_legal(self, guess) ==
    IF guess = <<>>
    THEN Fault(EmptyGuess, "")
    ELSE IF Len(guess) # Len(self.word)
    THEN Fault(LengthMismatch, "")
    ELSE IF self.hard_mode
    THEN VerifyLoop(self.constraints, 1, guess)
    ELSE Fault(NoError, "")

\* the validation at the head of _make_guess: the fault raised
Validate(self, guess) ==
    IF guess = <<>>
    THEN Fault(EmptyGuess, "")
    ELSE verify_is_legal(self, guess)

\* ---------------------------------------------------- _update_constraints
\* the loop of _update_constraints over the characters of the guess; st is
\* the heap, the dict being written and whether no assert has failed yet
RECURSIVE UpdateLoop(_, _, _, _, _, _)
UpdateLoop(st, chars, k, guess, result, mutate_inner) ==
    IF k > Len(chars) \/ ~st.ok
    THEN st
    ELSE
      LET char == chars[k]
          old_constraint == Get(st.constraints, char)
          new_constraint == from_result(Indexes(guess, char), result)
          next ==
            IF old_constraint # 0
            THEN IF mutate_inner
                 THEN LET r == update(st.heap[old_constraint], new_constraint)
                      IN [heap |-> [st.heap EXCEPT ![old_constraint] = r.value],
                          constraints |-> st.constraints,
                          ok |-> r.ok]
                 ELSE LET r == merge(st.heap[old_constraint], new_constraint)
                      IN IF r.ok
                         THEN [heap |-> Append(st.heap, r.value),
                               constraints |->
                                   Put(st.constraints, char, Len(st.heap) + 1),
                               ok |-> TRUE]
                         ELSE [st EXCEPT !.ok = FALSE]
            ELSE [heap |-> Append(st.heap, new_constraint),
                  constraints |-> Put(st.constraints, char, Len(st.heap) + 1),
                  ok |-> TRUE]
      IN UpdateLoop(next, chars, k + 1, guess, result, mutate_inner)

update_constraints(h, constraints, guess, result, mutate_inner) ==
    UpdateLoop([heap |-> h, constraints |-> constraints, ok |-> TRUE],
               CharOrder(guess), 1, guess, result, mutate_inner)

\* ---------------------------------------------------------- submission
\* the outcome of a call: the heap after it, the dict of the session the
\* guess was applied to, the fault raised (NoError when it returned) and
\* the result returned
Outcome(h, constraints, fault, result) ==
    [heap |-> h, constraints |-> constraints, error |-> fault.error,
     char |-> fault.char, result |-> result]

Returned(st, result) ==
    IF st.ok
    THEN Outcome(st.heap, st.constraints, Fault(NoError, ""), result)
    ELSE Outcome(st.heap, st.constraints, Fault(AssertionError, ""), <<>>)

\* a slip: the counts consumed by the scoring of an earlier guess are not
\* restored, so that only exact matches are credited afterwards
make_guess_consumed_counts(self, guess) ==
    LET fault == Validate(self, guess)
    IN IF fault.error # NoError
       THEN Outcome(heap, self.constraints, fault, <<>>)
       ELSE LET result ==
                    IF self.constraints = <<>>
                    THEN Score(self.word, guess)
                    ELSE GreenPass(self.word, guess, 0,
                                   [i \in 1..Len(self.word) |-> Gray],
                                   CounterAnd(counter(self.word),
                                              counter(guess))).result
            IN Returned(update_constraints(heap, self.constraints, guess,
                                           result, TRUE),
                        result)

\* Wordle.make_guess(self, guess)
make_guess(self, guess) ==
    LET fault == Validate(self, guess)
    IN IF fault.error # NoError
       THEN Outcome(heap, self.constraints, fault, <<>>)
       ELSE LET result == Score(self.word, guess)
            IN Returned(update_constraints(heap, self.constraints, guess,
                                           result, TRUE),
                        result)

\* copy(self._constraints): a shallow copy, a new dict holding the same
\* references
copy(constraints) == constraints

\* a slip: the fork updates through the in-place path
copy_mutate_inner_true == TRUE

\* the mutate_inner argument of the call in copy_make_guess
copy_mutate_inner == FALSE

\* Wordle.copy_make_guess(self, guess); constraints is the dict of the
\* new session c
copy_make_guess(self, guess) ==
    LET fault == Validate(self, guess)
    IN IF fault.error # NoError
       THEN Outcome(heap, self.constraints, fault, <<>>)
       ELSE LET result == Score(self.word, guess)
                c == [Wordle(self.word, self.hard_mode) EXCEPT
                         !.constraints = copy(self.constraints)]
            IN Returned(update_constraints(heap, c.constraints, guess,
                                           result, copy_mutate_inner),
                        result)

\* ---------------------------------------------------------------- actions
Call(op, s, guess, out, forked) ==
    [op |-> op, session |-> s, guess |-> guess, error |-> out.error,
     char |-> out.char, result |-> out.result, forked |-> forked]

\* s.make_guess(guess): the constraints of s are updated in place; a
\* failed assert leaves what was written before it
MakeGuess(s, guess) ==
    /\ calls < MaxCalls
    /\ \E out \in {make_guess(sessions[s], guess)} :
          /\ heap' = out.heap
          /\ sessions' = [sessions EXCEPT ![s].constraints = out.constraints]
          /\ last' = Call("make_guess", s, guess, out, 0)
    /\ calls' = calls + 1
    /\ UNCHANGED parent

\* c, result = s.copy_make_guess(guess): the new session c exists for the
\* caller only when the call returns
CopyMakeGuess(s, guess) ==
    /\ calls < MaxCalls
    /\ Len(sessions) < MaxSessions
    /\ \E out \in {copy_make_guess(sessions[s], guess)} :
          IF out.error = NoError
          THEN /\ heap' = out.heap
               /\ sessions' = Append(sessions,
                      [sessions[s] EXCEPT !.constraints = out.constraints])
               /\ parent' = Append(parent, s)
               /\ last' = Call("copy_make_guess", s, guess, out,
                               Len(sessions) + 1)
          ELSE /\ heap' = out.heap
               /\ last' = Call("copy_make_guess", s, guess, out, 0)
               /\ UNCHANGED <<sessions, parent>>
    /\ calls' = calls + 1

Next ==
    \/ \E s \in DOMAIN sessions :
          \E guess \in Guesses(sessions[s].word) : MakeGuess(s, guess)
    \/ \E s \in DOMAIN sessions :
          \E guess \in Guesses(sessions[s].word) : CopyMakeGuess(s, guess)

Spec == Init /\ [][Next]_vars

\* the same sessions and calls, started from the games of ScoreGames
InitScore ==
    /\ \E game \in ScoreGames :
          sessions = <<Wordle(game.word, game.hard_mode)>>
    /\ heap = <<>>
    /\ parent = <<0>>
    /\ calls = 0
    /\ last = [op |-> "init", session |-> 1, guess |-> <<>>,
               error |-> NoError, char |-> "", result |-> <<>>,
               forked |-> 0]

SpecScore == InitScore /\ [][Next]_vars

\* ------------------------------------------------------- shared notions
Submitted == last.op \in {"make_guess", "copy_make_guess"}

Succeeded == Submitted /\ last.error = NoError

Keys(constraints) == {constraints[i].char : i \in DOMAIN constraints}

\* a constraint table as a mapping from character to Constraint value
TableMap(constraints, h) ==
    [char \in Keys(constraints) |-> h[Get(constraints, char)]]

Occurrences(word, char) == Cardinality({i \in DOMAIN word : word[i] = char})

\* ------------------------------------------------------------------- C1
\* the two-pass reference of the claim: the remaining count starts from the
\* per-character count of the secret
RECURSIVE RefPass1(_, _, _, _, _)
RefPass1(S, G, i, marks, remaining) ==
    IF i > Len(S)
    THEN [marks |-> marks, remaining |-> remaining]
    ELSE IF G[i] = S[i]
         THEN RefPass1(S, G, i + 1, [marks EXCEPT ![i] = "Correct"],
                       [remaining EXCEPT ![S[i]] = @ - 1])
         ELSE RefPass1(S, G, i + 1, marks, remaining)

RECURSIVE RefPass2(_, _, _, _, _)
RefPass2(S, G, i, marks, remaining) ==
    IF i > Len(S)
    THEN marks
    ELSE IF marks[i] = "Correct"
         THEN RefPass2(S, G, i + 1, marks, remaining)
         ELSE IF remaining[G[i]] > 0
              THEN RefPass2(S, G, i + 1, [marks EXCEPT ![i] = "Present"],
                            [remaining EXCEPT ![G[i]] = @ - 1])
              ELSE RefPass2(S, G, i + 1, [marks EXCEPT ![i] = "Absent"],
                            remaining)

RefScore(S, G) ==
    LET p1 == RefPass1(S, G, 1, [i \in 1..Len(S) |-> "Unmarked"],
                       [c \in Chars |-> Occurrences(S, c)])
    IN RefPass2(S, G, 1, p1.marks, p1.remaining)

Named(r) == IF r = Green THEN "Correct"
            ELSE IF r = Yellow THEN "Present" ELSE "Absent"

\* C1: the result returned by a successful make_guess / copy_make_guess is
\* the two-pass reference scoring of the guess against the secret.
C1_ResultIsTwoPassReference ==
    Succeeded =>
        LET S == sessions[last.session].word
        IN /\ Len(last.result) = Len(S)
           /\ \A i \in 1..Len(S) :
                 Named(last.result[i]) = RefScore(S, last.guess)[i]

\* a submission was scored in which a letter of the secret is Absent at one
\* position and Correct at a later one: the two passes matter
C1_Witness ==
    /\ Succeeded
    /\ \E i, j \in DOMAIN last.guess :
          /\ i < j
          /\ last.guess[i] = last.guess[j]
          /\ last.result[i] = Gray
          /\ last.result[j] = Green

\* ------------------------------------------------------------------- C2
\* C2 as stated: scoring EERIE against ERODE gives Correct, Present,
\* Absent, Absent, Correct.
C2_AsStated ==
    (Succeeded /\ sessions[last.session].word = ERODE /\ last.guess = EERIE)
        => last.result = <<Green, Yellow, Gray, Gray, Green>>

\* C2 amended: scoring EERIE against ERODE gives Correct, Absent, Present,
\* Absent, Correct (the second E has no budget left, the R is elsewhere).
C2_ErodeEerie ==
    (Succeeded /\ sessions[last.session].word = ERODE /\ last.guess = EERIE)
        => last.result = <<Green, Gray, Yellow, Gray, Green>>

C2_Witness ==
    /\ Succeeded
    /\ sessions[last.session].word = ERODE
    /\ last.guess = EERIE
    /\ Len(last.result) = 5

\* ------------------------------------------------------------------- C3
\* the table the claim expects in the fork: the original's constraints,
\* each merged with the constraint derived from the guess for the
\* characters of the guess
ExpectedFork(table, guess, result) ==
    [char \in DOMAIN table \cup Range(guess) |->
        IF char \in Range(guess)
        THEN LET derived == from_result(Indexes(guess, char), result)
             IN IF char \in DOMAIN table
                THEN merge(table[char], derived).value
                ELSE derived
        ELSE table[char]]

\* C3: a successful copy_make_guess leaves the original's constraint table
\* as it was and returns a session whose table is the original's merged
\* with the constraints derived from the guess.
C3_ForkLeavesOriginal ==
    [][(last'.op = "copy_make_guess" /\ last'.error = NoError) =>
         LET s == last'.session
             c == last'.forked
         IN /\ sessions'[s] = sessions[s]
            /\ TableMap(sessions'[s].constraints, heap')
                 = TableMap(sessions[s].constraints, heap)
            /\ TableMap(sessions'[c].constraints, heap')
                 = ExpectedFork(TableMap(sessions[s].constraints, heap),
                                last'.guess, last'.result)]_vars

\* a fork was made with a guess that adds knowledge about a character the
\* original already had a constraint for
C3_Witness ==
    /\ last.op = "copy_make_guess"
    /\ last.error = NoError
    /\ \E char \in Range(last.guess) :
          LET old == Get(sessions[last.session].constraints, char)
              new == Get(sessions[last.forked].constraints, char)
          IN old # 0 /\ heap[new] # heap[old]

\* ------------------------------------------------------------------- C4
\* C4: a session and the session forked from it are independent: a call on
\* one of them changes no Constraint in the table of the other.
C4_ForkIsIndependent ==
    [][\A t \in DOMAIN sessions :
          LET called == last'.session
          IN (t # called /\ (parent[t] = called \/ parent[called] = t))
                => TableMap(sessions'[t].constraints, heap')
                     = TableMap(sessions[t].constraints, heap)]_vars

\* ------------------------------------------------------------------- C5
\* the rules of the claims, stated on a guess and one accumulated constraint
CountSatisfied(guess, char, constraint) ==
    IF constraint.min_is_exact
    THEN Occurrences(guess, char) = constraint.min_count
    ELSE Occurrences(guess, char) >= constraint.min_count

KnownPositionsHeld(guess, char, constraint) ==
    \A i \in constraint.known_positions : guess[i + 1] = char

KnownNotPositionsAvoided(guess, char, constraint) ==
    \A i \in constraint.known_not_positions : guess[i + 1] # char

SatisfiesAll(self, guess) ==
    \A char \in Keys(self.constraints) :
        LET constraint == heap[Get(self.constraints, char)]
        IN /\ CountSatisfied(guess, char, constraint)
           /\ KnownPositionsHeld(guess, char, constraint)
           /\ KnownNotPositionsAvoided(guess, char, constraint)

InvalidGuess(self, guess) ==
    \/ guess = <<>>
    \/ Len(guess) # Len(self.word)
    \/ self.hard_mode /\ ~SatisfiesAll(self, guess)

ValidationFaults ==
    {EmptyGuess, LengthMismatch, CountExactMismatch, CountBelowMinimum,
     MissingRequiredPosition, ForbiddenPositionPresent}

\* C5: a submission of an invalid guess (empty, of the wrong length or, in
\* hard mode, against an accumulated constraint) fails with an error,
\* returns no result and leaves the constraint tables as they were.
C5_InvalidGuessChangesNothing ==
    [][InvalidGuess(sessions[last'.session], last'.guess) =>
          /\ last'.error \in ValidationFaults
          /\ last'.result = <<>>
          /\ sessions' = sessions
          /\ heap' = heap]_vars

\* a hard-mode submission was refused for a character at a position known
\* to be wrong, in a session that has accumulated constraints
C5_Witness ==
    /\ Submitted
    /\ last.error = ForbiddenPositionPresent
    /\ sessions[last.session].constraints # <<>>
    /\ InvalidGuess(sessions[last.session], last.guess)

\* ------------------------------------------------------------------- C6
\* C6: in hard mode is_legal(g) is true exactly when g has the secret's
\* length and, for every constrained character, g meets the count (equal
\* when exact, at least otherwise), holds it at every known position and
\* at no known-not position; a guess of another length is never legal.
C6_IsLegalIsTheRules ==
    \A s \in DOMAIN sessions :
        \A g \in Guesses(sessions[s].word) :
            /\ Len(g) # Len(sessions[s].word) => ~is_legal(sessions[s], g)
            /\ (sessions[s].hard_mode /\ Len(g) = Len(sessions[s].word))
                  => (is_legal(sessions[s], g) <=> SatisfiesAll(sessions[s], g))

\* a hard-mode session with accumulated constraints in which one guess of
\* the right length is legal and another is illegal only because of a
\* known-not position
C6_Witness ==
    \E s \in DOMAIN sessions :
        /\ sessions[s].hard_mode
        /\ sessions[s].constraints # <<>>
        /\ \E g \in Guesses(sessions[s].word) : is_legal(sessions[s], g)
        /\ \E g \in Guesses(sessions[s].word) :
              /\ Len(g) = Len(sessions[s].word)
              /\ ~is_legal(sessions[s], g)
              /\ \A char \in Keys(sessions[s].constraints) :
                    LET constraint == heap[Get(sessions[s].constraints, char)]
                    IN /\ CountSatisfied(g, char, constraint)
                       /\ KnownPositionsHeld(g, char, constraint)

\* ------------------------------------------------------------------- C7
HardModeFaults ==
    {CountExactMismatch, CountBelowMinimum, MissingRequiredPosition,
     ForbiddenPositionPresent}

\* the guesses of the right length that do not hold char at index p
Omitting(self, char, p) ==
    {g \in Guesses(self.word) :
        Len(g) = Len(self.word) /\ g[p + 1] # char}

\* C7 as stated: in hard mode, once a character is known at a position,
\* every guess of the right length without it there is refused by is_legal
\* and fails submission with the missing-required-position fault.
C7_AsStated ==
    \A s \in DOMAIN sessions :
        \A i \in DOMAIN sessions[s].constraints :
            LET self == sessions[s]
                char == self.constraints[i].char
                constraint == heap[self.constraints[i].ref]
            IN self.hard_mode =>
                 \A p \in constraint.known_positions :
                     \A g \in Omitting(self, char, p) :
                         /\ ~is_legal(self, g)
                         /\ Validate(self, g).error = MissingRequiredPosition

\* C7 amended: such a guess is refused by is_legal and fails submission
\* with a hard-mode violation fault, the first violated rule in table
\* order with a character's count checked before its positions; it is the
\* missing-required-position fault of that character exactly when the
\* guess meets every rule of the characters earlier in the table and the
\* count rule of the character itself.
C7_FirstViolatedRuleIsReported ==
    \A s \in DOMAIN sessions :
        \A i \in DOMAIN sessions[s].constraints :
            LET self == sessions[s]
                char == self.constraints[i].char
                constraint == heap[self.constraints[i].ref]
                EarlierSatisfied(g) ==
                    \A j \in 1..(i - 1) :
                        LET cj == self.constraints[j].char
                            kj == heap[self.constraints[j].ref]
                        IN /\ CountSatisfied(g, cj, kj)
                           /\ KnownPositionsHeld(g, cj, kj)
                           /\ KnownNotPositionsAvoided(g, cj, kj)
            IN self.hard_mode =>
                 \A p \in constraint.known_positions :
                     \A g \in Omitting(self, char, p) :
                         /\ ~is_legal(self, g)
                         /\ Validate(self, g).error \in HardModeFaults
                         /\ Validate(self, g)
                              = Fault(MissingRequiredPosition, char)
                            <=> (EarlierSatisfied(g)
                                 /\ CountSatisfied(g, char, constraint))

\* a hard-mode make_guess failed with the missing-required-position fault
\* for a character known at a position the guess does not hold it at,
\* while another guess omitting it there would fail on the count
C7_Witness ==
    /\ last.op = "make_guess"
    /\ last.error = MissingRequiredPosition
    /\ LET self == sessions[last.session]
           constraint == heap[Get(self.constraints, last.char)]
       IN /\ self.hard_mode
          /\ \E p \in constraint.known_positions :
                /\ last.guess \in Omitting(self, last.char, p)
                /\ \E g \in Omitting(self, last.char, p) :
                      Validate(self, g).error = CountBelowMinimum

\* ------------------------------------------------------------------- C8
\* C8: across submissions no character leaves a session's table, its
\* known_positions and known_not_positions only grow, its min_count never
\* decreases and min_is_exact, once true, stays true.
C8_KnowledgeOnlyGrows ==
    [][\A s \in DOMAIN sessions :
          \A char \in Keys(sessions[s].constraints) :
              /\ char \in Keys(sessions'[s].constraints)
              /\ LET before == heap[Get(sessions[s].constraints, char)]
                     after == heap'[Get(sessions'[s].constraints, char)]
                 IN /\ before.known_positions \subseteq after.known_positions
                    /\ before.known_not_positions
                         \subseteq after.known_not_positions
                    /\ after.min_count >= before.min_count
                    /\ before.min_is_exact => after.min_is_exact]_vars

\* a make_guess succeeded on a character whose accumulated constraint is
\* exact and holds more than the guess alone reveals
C8_Witness ==
    /\ last.op = "make_guess"
    /\ last.error = NoError
    /\ \E char \in Range(last.guess) :
          LET self == sessions[last.session]
              now == heap[Get(self.constraints, char)]
              derived == from_result(Indexes(last.guess, char), last.result)
          IN /\ now.min_is_exact
             /\ ~derived.min_is_exact
             /\ now.known_not_positions # derived.known_not_positions

\* ------------------------------------------------------------------- C9
\* C9: in every session, for every character of the table, known_positions
\* and known_not_positions have no index in common.
C9_PositionsDisjoint ==
    \A s \in DOMAIN sessions :
        \A i \in DOMAIN sessions[s].constraints :
            LET constraint == heap[sessions[s].constraints[i].ref]
            IN constraint.known_positions
                 \cap constraint.known_not_positions = {}

\* a forked session holds a character known at one position and known not
\* to be at another
C9_Witness ==
    \E s \in DOMAIN sessions :
        /\ parent[s] # 0
        /\ \E i \in DOMAIN sessions[s].constraints :
              LET constraint == heap[sessions[s].constraints[i].ref]
              IN /\ constraint.known_positions # {}
                 /\ constraint.known_not_positions # {}

\* ------------------------------------------------------------------ C10
\* C10: no submission that passes validation ends in a failed assertion of
\* Constraint.update or Constraint.merge.
C10_NoAssertionFails == last.error # AssertionError

\* an update or a merge went through a branch that asserts: the stored
\* constraint is exact and has a higher count than the one derived from
\* the guess
C10_Witness ==
    /\ Succeeded
    /\ \E char \in Range(last.guess) :
          LET self == sessions[IF last.op = "make_guess"
                               THEN last.session ELSE last.forked]
              now == heap[Get(self.constraints, char)]
              derived == from_result(Indexes(last.guess, char), last.result)
          IN /\ now.min_count > derived.min_count
             /\ now.min_is_exact

\* ------------------------------------------------------------------ C11
NoRepeat(word) == \A i, j \in DOMAIN word : word[i] = word[j] => i = j

\* C11: when neither the secret nor the guess repeats a character, a
\* position is Correct exactly when the guess holds the secret's character
\* there, otherwise Present exactly when the guessed character occurs in
\* the secret, otherwise Absent.
C11_NoRepeatScoring ==
    (Succeeded /\ NoRepeat(sessions[last.session].word)
               /\ NoRepeat(last.guess)) =>
        LET S == sessions[last.session].word
            G == last.guess
        IN \A i \in DOMAIN G :
              last.result[i] =
                  IF G[i] = S[i] THEN Green
                  ELSE IF G[i] \in Range(S) THEN Yellow
                  ELSE Gray

\* a guess without repeated letters was scored with a Correct, a Present
\* and an Absent position
C11_Witness ==
    /\ Succeeded
    /\ NoRepeat(sessions[last.session].word)
    /\ NoRepeat(last.guess)
    /\ {Green, Yellow, Gray} \subseteq Range(last.result)

\* ------------------------------------------------------------------ C12
\* the positions of the guess that hold char and were scored Correct or
\* Present
Credited(guess, result, char) ==
    {i \in DOMAIN guess :
        guess[i] = char /\ result[i] \in {Green, Yellow}}

\* C12: for every character, the positions of the guess holding it that
\* are scored Correct or Present are no more than its occurrences in the
\* secret.
C12_CreditWithinSecretCount ==
    Succeeded =>
        \A char \in Range(last.guess) :
            Cardinality(Credited(last.guess, last.result, char))
                <= Occurrences(sessions[last.session].word, char)

\* a guess was scored that holds a letter of the secret more often than
\* the secret does, and every occurrence in the secret was credited
C12_Witness ==
    /\ Succeeded
    /\ \E char \in Range(last.guess) :
          LET inSecret == Occurrences(sessions[last.session].word, char)
          IN /\ inSecret >= 1
             /\ Occurrences(last.guess, char) > inSecret
             /\ Cardinality(Credited(last.guess, last.result, char))
                  = inSecret

\* ------------------------------------------------------------------ C13
\* a scoring that reads nothing but the secret and the guess: a position
\* that is not an exact match is Present when fewer earlier unmatched
\* positions hold its character than the secret has unmatched occurrences
ScoreOf(S, G) ==
    [i \in 1..Len(G) |->
        IF G[i] = S[i] THEN Green
        ELSE LET char == G[i]
                 unmatched ==
                     Cardinality({j \in DOMAIN S : S[j] = char /\ G[j] # char})
                 earlier ==
                     Cardinality({j \in 1..(i - 1) :
                                     G[j] = char /\ S[j] # char})
             IN IF earlier < unmatched THEN Yellow ELSE Gray]

\* C13: the result of a successful submission depends on the secret and
\* the guess only: in every session state, through either operation and in
\* either mode, it is the same sequence, one CharResult per position of
\* the guess.
C13_ResultDependsOnSecretAndGuessOnly ==
    Succeeded =>
        /\ Len(last.result) = Len(last.guess)
        /\ \A i \in DOMAIN last.result : last.result[i] \in CharResult
        /\ last.result = ScoreOf(sessions[last.session].word, last.guess)

\* a guess was scored by copy_make_guess in a session whose table already
\* held, for every character of the guess, exactly what this guess and its
\* result derive: the guess had been scored there before
C13_Witness ==
    /\ last.op = "copy_make_guess"
    /\ last.error = NoError
    /\ ~all_correct(last.result)
    /\ \A char \in Range(last.guess) :
          LET ref == Get(sessions[last.session].constraints, char)
          IN /\ ref # 0
             /\ heap[ref]
                  = from_result(Indexes(last.guess, char), last.result)

\* ------------------------------------------------------------------ C14
\* C14: with hard mode off every guess of the secret's length is legal,
\* whatever has been accumulated, and every make_guess of such a guess
\* (each state is offered each guess) has succeeded with a full result.
C14_EasyModeAcceptsAnyWord ==
    /\ \A s \in DOMAIN sessions :
          ~sessions[s].hard_mode =>
              \A g \in Guesses(sessions[s].word) :
                  Len(g) = Len(sessions[s].word) =>
                      /\ is_legal(sessions[s], g)
                      /\ Validate(sessions[s], g).error = NoError
    /\ (/\ last.op = "make_guess"
        /\ ~sessions[last.session].hard_mode
        /\ Len(last.guess) = Len(sessions[last.session].word))
       => /\ last.error = NoError
          /\ Len(last.result) = Len(last.guess)

\* with hard mode off a make_guess succeeded on a guess that does not hold
\* a character at a position where an earlier guess found it
C14_Witness ==
    /\ last.op = "make_guess"
    /\ last.error = NoError
    /\ ~sessions[last.session].hard_mode
    /\ \E char \in Keys(sessions[last.session].constraints) :
          ~KnownPositionsHeld(
               last.guess, char,
               heap[Get(sessions[last.session].constraints, char)])

\* ------------------------------------------------------------------ C15
\* the constraint the claim derives for char from a scored guess; the
\* positions of the guess are 1..Len, the indexes recorded are 0-based
Derived(guess, result, char) ==
    LET occurrences == {i \in DOMAIN guess : guess[i] = char}
        scored(kinds) == {i \in occurrences : result[i] \in kinds}
    IN [min_count |-> Cardinality(scored({Green, Yellow})),
        min_is_exact |-> scored({Gray}) # {},
        known_positions |-> {i - 1 : i \in scored({Green})},
        known_not_positions |-> {i - 1 : i \in scored({Yellow, Gray})}]

\* C15: for every character of a scored guess from_result gives min_count
\* = its Correct and Present occurrences, min_is_exact = some occurrence
\* is Absent, known_positions = the Correct occurrences and
\* known_not_positions = the Present and Absent ones; it is what a table
\* that was empty holds after the guess.
C15_DerivedConstraint ==
    Succeeded =>
        \A char \in Range(last.guess) :
            /\ from_result(Indexes(last.guess, char), last.result)
                 = Derived(last.guess, last.result, char)
            /\ calls = 1 =>
                 LET self == sessions[IF last.op = "make_guess"
                                      THEN last.session ELSE last.forked]
                 IN heap[Get(self.constraints, char)]
                      = Derived(last.guess, last.result, char)

\* a first guess was scored in which one character has a Correct and an
\* Absent occurrence and another character is Present
C15_Witness ==
    /\ Succeeded
    /\ calls = 1
    /\ \E i, j, k \in DOMAIN last.guess :
          /\ last.guess[i] = last.guess[j]
          /\ last.result[i] = Green
          /\ last.result[j] = Gray
          /\ last.result[k] = Yellow

\* ------------------------------------------------------------------ C16
\* C16: in every state of every session and for every guess, is_legal is
\* true exactly when the validation at the head of _make_guess, which
\* make_guess and copy_make_guess both go through, raises nothing; a
\* submission was refused by the validation exactly when is_legal refuses
\* the guess in the state it left unchanged.
C16_IsLegalIffValidationPasses ==
    /\ \A s \in DOMAIN sessions :
          \A g \in Guesses(sessions[s].word) :
              is_legal(sessions[s], g)
                  <=> Validate(sessions[s], g).error = NoError
    /\ (Submitted /\ last.error \in ValidationFaults)
          => ~is_legal(sessions[last.session], last.guess)

\* a fork was refused on a count rule by a hard-mode session that holds
\* constraints, and is_legal refuses the same guess
C16_Witness ==
    /\ last.op = "copy_make_guess"
    /\ last.error \in {CountExactMismatch, CountBelowMinimum}
    /\ sessions[last.session].hard_mode
    /\ ~is_legal(sessions[last.session], last.guess)
    /\ \E g \in Guesses(sessions[last.session].word) :
          is_legal(sessions[last.session], g)

\* ------------------------------------------------------------------ C17
\* the characters of a table in the order of the dict
KeyOrder(constraints) ==
    [i \in DOMAIN constraints |-> constraints[i].char]

C18_ConstraintsSoundForSecret ==
    \A s \in DOMAIN sessions :
        \A i \in DOMAIN sessions[s].constraints :
            LET char == sessions[s].constraints[i].char
                constraint == heap[sessions[s].constraints[i].ref]
                n == Occurrences(sessions[s].word, char)
            IN /\ constraint.min_count <= n
               /\ constraint.min_is_exact => constraint.min_count = n

\* a session holds an exact count of a character of the secret and a
\* minimum below the secret's count for another
C18_Witness ==
    \E s \in DOMAIN sessions :
        /\ \E char \in Keys(sessions[s].constraints) :
              LET constraint == heap[Get(sessions[s].constraints, char)]
              IN /\ constraint.min_is_exact
                 /\ constraint.min_count >= 1
        /\ \E char \in Keys(sessions[s].constraints) :
              LET constraint == heap[Get(sessions[s].constraints, char)]
              IN /\ ~constraint.min_is_exact
                 /\ constraint.min_count >= 1
                 /\ constraint.min_count
                      < Occurrences(sessions[s].word, char)

\* ------------------------------------------------------------------ C19
\* C19: in every state of a hard-mode session the secret is legal and
\* passes the validation, and every submission of the secret (each state
\* is offered it) has succeeded with every position Correct.
C19_SecretNeverRuledOut ==
    /\ \A s \in DOMAIN sessions :
          sessions[s].hard_mode =>
              /\ is_legal(sessions[s], sessions[s].word)
              /\ Validate(sessions[s], sessions[s].word).error = NoError
    /\ (/\ Submitted
        /\ sessions[last.session].hard_mode
        /\ last.guess = sessions[last.session].word)
       => /\ last.error = NoError
          /\ Len(last.result) = Len(last.guess)
          /\ all_correct(last.result)

\* the secret was submitted to a hard-mode session that had ruled a
\* character out of the secret and held a minimum below the secret's count
C19_Witness ==
    /\ Submitted
    /\ last.error = NoError
    /\ sessions[last.session].hard_mode
    /\ last.guess = sessions[last.session].word
    /\ all_correct(last.result)
    /\ calls >= 2
    /\ LET self == sessions[last.session]
       IN /\ \E char \in Keys(self.constraints) :
                char \notin Range(self.word)
          /\ \E char \in Range(self.word) :
                Occurrences(self.word, char) >= 2

\* ------------------------------------------------------------------ C20
\* C20: in hard mode, in the state a successful make_guess(g) leaves with
\* a result that is not all Correct, is_legal(g) is false and make_guess(g)
\* fails on a rule and leaves the heap and the session's table as they are.
C20_ScoredGuessIsNotLegalAgain ==
    (/\ last.op = "make_guess"
     /\ last.error = NoError
     /\ sessions[last.session].hard_mode
     /\ ~all_correct(last.result))
    => /\ ~is_legal(sessions[last.session], last.guess)
       /\ \A again \in {make_guess(sessions[last.session], last.guess)} :
             /\ again.error \in HardModeFaults
             /\ again.result = <<>>
             /\ again.heap = heap
             /\ again.constraints = sessions[last.session].constraints

\* a hard-mode make_guess was refused for a guess every position of which
\* the session's table already records, one of them as a wrong position
C20_Witness ==
    /\ last.op = "make_guess"
    /\ last.error \in HardModeFaults
    /\ LET self == sessions[last.session]
           g == last.guess
       IN /\ self.hard_mode
          /\ Len(g) = Len(self.word)
          /\ \A i \in DOMAIN g :
                /\ g[i] \in Keys(self.constraints)
                /\ LET constraint == heap[Get(self.constraints, g[i])]
                   IN (i - 1) \in constraint.known_positions
                                    \cup constraint.known_not_positions
          /\ \E i \in DOMAIN g :
                (i - 1) \in heap[Get(self.constraints, g[i])]
                               .known_not_positions
====
